---- MODULE Spec2Model ----
(***************************************************************************)
(* Model of src/index.js: the bulk-messaging relay.  The file holds three  *)
(* versions of the server (lines 1-195, 197-406 and 408-560); `variant`    *)
(* says which one is running.  A /send request is handled synchronously up *)
(* to its HTTP response; an accepted request detaches an async delivery    *)
(* loop that suspends at isRegisteredUser, mediaFile.mv, sendMessage and   *)
(* the pacing timer.  Strings the code inspects character by character     *)
(* (phone numbers, the delay field) are sequences of one-character         *)
(* strings.                                                                *)
(***************************************************************************)
EXTENDS Integers, Sequences, FiniteSets, TLC

VARIABLES
  variant,       \* which version of index.js runs: 1, 2 or 3
  info,          \* client.info && client.info.wid is set
  st,            \* per request: "none", "pending", "rejected", "running", "done"
  rin,           \* per request: the request, from its arrival until its handler runs
  resp,          \* per request: the HTTP response
  numbers,       \* per job: the normalized recipient list
  mediaFile,     \* per job: req.files.media or NoMedia
  msgDelay,      \* per job: the pacing delay in ms
  idx,           \* per job: the loop variable i (0-based)
  pc,            \* per job: the await the loop is suspended at
  sentCount, skippedCount, failedCount,
  log,           \* per job: collaborator calls, file operations, events, delays
  files,         \* names of the files that exist in uploadsDir
  pure,          \* input/output of a pure function under test
  disconnects,   \* the "disconnected" events so far, each with the jobs running at it
  timers,        \* pending reconnect timers (setTimeout(..., 5000))
  inits,         \* the client.initialize() calls so far: session presented, caller
  sessionFile,   \* content of session.json, or NoBlob when the file does not exist
  sessionData,   \* the module-level sessionData, passed as options.session
  auth,          \* outcome of the latest initialize: "pending", "ok" or "failed"
  rejected       \* blobs an "auth_failure" turned down, each with the initialize it answered

jobVars == <<st, rin, resp, numbers, mediaFile, msgDelay, idx, pc,
             sentCount, skippedCount, failedCount, log, files>>
clientVars == <<disconnects, timers, inits, sessionFile, sessionData, auth, rejected>>
vars == <<variant, info, st, rin, resp, numbers, mediaFile, msgDelay, idx, pc,
          sentCount, skippedCount, failedCount, log, files, pure,
          disconnects, timers, inits, sessionFile, sessionData, auth, rejected>>

----------------------------------------------------------------------------
(* Bounds *)

MaxJobs == 2          \* /send requests in one run
MaxList == 2          \* entries in a raw number list (normalizer runs)
MaxDelayLen == 4      \* characters in the delay field (delay runs)
MaxDisconnects == 2   \* "disconnected" events in one run

JobIds == 1..MaxJobs

----------------------------------------------------------------------------
(* Characters and strings *)

Digit == {"0", "1", "2", "3", "4", "5", "6", "7", "8", "9"}

DigitVal(c) ==
  CASE c = "0" -> 0 [] c = "1" -> 1 [] c = "2" -> 2 [] c = "3" -> 3
    [] c = "4" -> 4 [] c = "5" -> 5 [] c = "6" -> 6 [] c = "7" -> 7
    [] c = "8" -> 8 [] c = "9" -> 9

IsDigit(c) == c \in Digit

IsSpace(c) == c = " "

\* String.prototype.trim
RECURSIVE TrimLeft(_)
TrimLeft(s) ==
  IF s # <<>> /\ IsSpace(Head(s)) THEN TrimLeft(Tail(s)) ELSE s

RECURSIVE TrimRight(_)
TrimRight(s) ==
  IF s # <<>> /\ IsSpace(s[Len(s)]) THEN TrimRight(SubSeq(s, 1, Len(s) - 1)) ELSE s

Trim(s) == TrimRight(TrimLeft(s))

\* String.prototype.split(","): the pieces between commas, at least one piece
RECURSIVE SplitComma(_, _)
SplitComma(s, cur) ==
  IF s = <<>> THEN <<cur>>
  ELSE IF Head(s) = "," THEN <<cur>> \o SplitComma(Tail(s), <<>>)
  ELSE SplitComma(Tail(s), Append(cur, Head(s)))

----------------------------------------------------------------------------
(* Contact normalizer: index.js 72-96 (also 296-320, 458-482) *)

HomeCode == <<"9", "1">>
MinDigits == 10

\* n.replace(/\D/g, "")
StripNonDigits(n) == SelectSeq(n, IsDigit)

\* n.startsWith("91")
StartsWithHome(n) == Len(n) >= 2 /\ SubSeq(n, 1, 2) = HomeCode

\* n.slice(-10)
SliceLast(n, k) == IF Len(n) <= k THEN n ELSE SubSeq(n, Len(n) - k + 1, Len(n))

\* Canonical that always prefixes the country code
CanonicalAlwaysPrefixes(n) == <<"+">> \o HomeCode \o n

\* Canonical without the slice(-10)
CanonicalKeepsAll(n) ==
  IF StartsWithHome(n) THEN <<"+">> \o n
  ELSE <<"+">> \o HomeCode \o n

\* (n) => n.startsWith("91") ? `+${n}` : `+91${n.slice(-10)}`
Canonical(n) ==
  IF StartsWithHome(n) THEN <<"+">> \o n
  ELSE <<"+">> \o HomeCode \o SliceLast(n, 10)

\* [...new Set(list)]: first occurrences, in order
RECURSIVE Dedup(_, _)
Dedup(list, seen) ==
  IF list = <<>> THEN <<>>
  ELSE IF Head(list) \in seen THEN Dedup(Tail(list), seen)
  ELSE <<Head(list)>> \o Dedup(Tail(list), seen \cup {Head(list)})

LongEnough(n) == Len(n) >= MinDigits

\* numbers = [...new Set(numbers.map(strip).filter(len >= 10).map(canonical))]
NormalizeNumbers(list) ==
  LET stripped == [k \in 1..Len(list) |-> StripNonDigits(list[k])]
      kept == SelectSeq(stripped, LongEnough)
  IN Dedup([k \in 1..Len(kept) |-> Canonical(kept[k])], {})

\* req.body.numbers?.trim() ? req.body.numbers.split(",").map(trim) : []
TextNumbers(text) ==
  LET pieces == SplitComma(text, <<>>)
  IN IF Trim(text) # <<>> THEN [k \in 1..Len(pieces) |-> Trim(pieces[k])] ELSE <<>>

AllDigits(v) == v # <<>> /\ \A k \in 1..Len(v) : IsDigit(v[k])

\* first-column cells, trimmed, kept when /^\d+$/ matches
ExcelNumbers(cells) == SelectSeq([k \in 1..Len(cells) |-> Trim(cells[k])], AllDigits)

\* the handler's `numbers` at line 98
RequestNumbers(r) == NormalizeNumbers(TextNumbers(r.numbers) \o ExcelNumbers(r.excel))

\* number.replace("+", "") + "@c.us": the first "+" is removed
RECURSIVE DropFirstPlus(_)
DropFirstPlus(n) ==
  IF n = <<>> THEN <<>>
  ELSE IF Head(n) = "+" THEN Tail(n)
  ELSE <<Head(n)>> \o DropFirstPlus(Tail(n))

ChatId(number) == DropFirstPlus(number) \o <<"@", "c", ".", "u", "s">>

----------------------------------------------------------------------------
(* Pacing delay: index.js 115 (also 332, 501) *)

DefaultDelay == 2000
MinDelay == 1500

\* the leading digits of s
RECURSIVE DigitPrefix(_)
DigitPrefix(s) ==
  IF s # <<>> /\ IsDigit(Head(s)) THEN <<Head(s)>> \o DigitPrefix(Tail(s)) ELSE <<>>

RECURSIVE DecimalValue(_, _)
DecimalValue(ds, acc) ==
  IF ds = <<>> THEN acc ELSE DecimalValue(Tail(ds), 10 * acc + DigitVal(Head(ds)))

\* parseInt(s): leading white space, an optional sign, then the longest run
\* of decimal digits; NaN when there is none
ParseInt(s) ==
  LET t == TrimLeft(s)
      neg == t # <<>> /\ Head(t) = "-"
      signed == t # <<>> /\ Head(t) \in {"-", "+"}
      ds == DigitPrefix(IF signed THEN Tail(t) ELSE t)
  IN IF ds = <<>> THEN [nan |-> TRUE, val |-> 0]
     ELSE [nan |-> FALSE, val |-> IF neg THEN 0 - DecimalValue(ds, 0) ELSE DecimalValue(ds, 0)]

Max(a, b) == IF a >= b THEN a ELSE b

\* p || 2000: NaN and 0 are falsy
OrDefault(p) == IF p.nan \/ p.val = 0 THEN DefaultDelay ELSE p.val

\* Math.max(parseInt(req.body.delay) || 2000, 1500)
MsgDelay(d) == Max(OrDefault(ParseInt(d)), MinDelay)

----------------------------------------------------------------------------
(* Media payload: index.js 109, 135-149 *)

NoMedia == [present |-> FALSE, type |-> "", size |-> 0, name |-> ""]

MaxMediaBytes == 16 * 1024 * 1024

\* !mimetype.startsWith("video/") && !mimetype.startsWith("image/")
InvalidType(m) == m.type # "video" /\ m.type # "image"

\* mediaFile.size > 16 * 1024 * 1024
Oversized(m) == m.size > MaxMediaBytes

\* variants 1 and 2 check the media at send time and go through uploadsDir;
\* variant 3 (518-524) sends mediaFile.data from memory
ChecksMedia == variant \in {1, 2}
UsesScratchFile == variant \in {1, 2}

\* variants 1 and 2 test client.info first (68, 292); variant 3 does not (456-458)
ChecksReady == variant \in {1, 2}

\* variant 3 appends a footer to the message (489-493)
Footer == <<"\n", "C", "A", "L", "L">>
Compose(message) == IF variant = 3 THEN message \o Footer ELSE message

\* !message.trim()
Blank(message) == Trim(message) = <<>>

----------------------------------------------------------------------------
(* Log entries of a job *)

\* a collaborator call or file operation made for recipient i
CallEntry(op, i) == [op |-> op, i |-> i]
\* io.emit("status", "Skipped <number> (<reason>)")
SkipEntry(kind, i, number) == [op |-> "emit", kind |-> kind, i |-> i, number |-> number]
\* io.emit("status", "(<i+1>/<total>) Sent to | Failed to send to <number>")
\* OutcomeEntry printing i instead of i + 1
OutcomeEntryZeroBased(kind, i, total, number) ==
  [op |-> "emit", kind |-> kind, i |-> i, number |-> number, index |-> i, total |-> total]
OutcomeEntry(kind, i, total, number) ==
  [op |-> "emit", kind |-> kind, i |-> i, number |-> number, index |-> i + 1, total |-> total]
\* the pacing timer of iteration i fired after ms milliseconds
DelayEntry(i, ms) == [op |-> "delay", i |-> i, ms |-> ms]
\* io.emit("status", "Done! Sent: s, Skipped: k, Failed: f")
SummaryEntry(s, k, f) == [op |-> "summary", sent |-> s, skipped |-> k, failed |-> f]

----------------------------------------------------------------------------
(* Requests the model submits *)

N1 == <<"9", "8", "7", "6", "5", "4", "3", "2", "1", "0">>
N2 == <<"7", "0", "1", "2", "3", "4", "5", "6", "7", "8">>

Short == <<"1", "2", "3", "4", "5", "6", "7", "8">>

TextInputs == { <<>>, N1 \o <<",", " ", "+", "9", "1">> \o N1 }

ExcelInputs == { <<>>, <<Short, N2>> }

MessageInputs == { <<>>, <<" ">>, <<"h", "i">> }

MediaInputs ==
  { NoMedia }
  \cup [present : {TRUE}, type : {"image", "application"},
        size : {1024, MaxMediaBytes + 1}, name : {"pic"}]

DelayInputs == { <<"5", "0", "0">> }

Requests ==
  [numbers : TextInputs, excel : ExcelInputs, message : MessageInputs,
   media : MediaInputs, delay : DelayInputs]

----------------------------------------------------------------------------
(* Initial state: the server has started, the client is not yet ready *)

NoRequest == [numbers |-> <<>>, excel |-> <<>>, message |-> <<>>, media |-> NoMedia, delay |-> <<>>]
NoResponse == [code |-> 0]
NoPure == [kind |-> "none"]

InitJobs ==
  /\ st = [j \in JobIds |-> "none"]
  /\ rin = [j \in JobIds |-> NoRequest]
  /\ resp = [j \in JobIds |-> NoResponse]
  /\ numbers = [j \in JobIds |-> <<>>]
  /\ mediaFile = [j \in JobIds |-> NoMedia]
  /\ msgDelay = [j \in JobIds |-> 0]
  /\ idx = [j \in JobIds |-> 0]
  /\ pc = [j \in JobIds |-> "idle"]
  /\ sentCount = [j \in JobIds |-> 0]
  /\ skippedCount = [j \in JobIds |-> 0]
  /\ failedCount = [j \in JobIds |-> 0]
  /\ log = [j \in JobIds |-> <<>>]
  /\ files = {}

NoBlob == "none"

\* a call of client.initialize(): the session it presents and where it is called from
InitializeCall(blob, by) == [blob |-> blob, by |-> by]

\* startup: sessionData is read from session.json (227-230), the client is built
\* with it (254) and client.initialize() is called (190, 398, 556)
Startup(file) ==
  /\ sessionFile = file
  /\ sessionData = file
  /\ inits = <<InitializeCall(file, "startup")>>
  /\ auth = "pending"
  /\ rejected = {}
  /\ disconnects = <<>>
  /\ timers = 0

Init ==
  /\ variant \in {1, 2, 3}
  /\ info = FALSE
  /\ InitJobs
  /\ pure = NoPure
  /\ Startup(NoBlob)

----------------------------------------------------------------------------
(* client.on("ready"): the library has set client.info *)

ClientReady ==
  /\ ~info
  /\ info' = TRUE
  /\ UNCHANGED <<variant, pure>>
  /\ UNCHANGED clientVars
  /\ UNCHANGED jobVars

----------------------------------------------------------------------------
(* app.post("/send"): index.js 65-187, 290-395, 456-554 *)

ErrorResponse(code, error) == [code |-> code, error |-> error]

\* res.json({ status: "sending", total: numbers.length })
AckResponse(nums) == [code |-> 200, status |-> "sending", total |-> Len(nums)]

\* a request has been received and parsed; its handler has not run yet
Arrive(j, r) ==
  /\ st[j] = "none"
  /\ \A k \in JobIds : k < j => st[k] # "none"
  /\ st' = [st EXCEPT ![j] = "pending"]
  /\ rin' = [rin EXCEPT ![j] = r]
  /\ UNCHANGED <<resp, numbers, mediaFile, msgDelay, idx, pc,
                 sentCount, skippedCount, failedCount, log, files>>
  /\ UNCHANGED <<variant, info, pure>>
  /\ UNCHANGED clientVars

Reject(j, error) ==
  /\ st' = [st EXCEPT ![j] = "rejected"]
  /\ rin' = [rin EXCEPT ![j] = NoRequest]
  /\ resp' = [resp EXCEPT ![j] = ErrorResponse(400, error)]
  /\ UNCHANGED <<numbers, mediaFile, msgDelay, idx, pc,
                 sentCount, skippedCount, failedCount, log, files>>

\* Accept that awaits the loop before answering: no response while it runs
AcceptAwaitsLoop(j, r, nums) ==
  /\ st' = [st EXCEPT ![j] = "running"]
  /\ rin' = [rin EXCEPT ![j] = NoRequest]
  /\ numbers' = [numbers EXCEPT ![j] = nums]
  /\ mediaFile' = [mediaFile EXCEPT ![j] = r.media]
  /\ msgDelay' = [msgDelay EXCEPT ![j] = MsgDelay(r.delay)]
  /\ idx' = [idx EXCEPT ![j] = 0]
  /\ pc' = [pc EXCEPT ![j] = "reg"]
  /\ log' = [log EXCEPT ![j] = <<CallEntry("isRegisteredUser", 0)>>]
  /\ UNCHANGED <<resp, sentCount, skippedCount, failedCount, files>>

\* the detached async function runs up to its first await before res.json
Accept(j, r, nums) ==
  /\ st' = [st EXCEPT ![j] = "running"]
  /\ rin' = [rin EXCEPT ![j] = NoRequest]
  /\ numbers' = [numbers EXCEPT ![j] = nums]
  /\ mediaFile' = [mediaFile EXCEPT ![j] = r.media]
  /\ msgDelay' = [msgDelay EXCEPT ![j] = MsgDelay(r.delay)]
  /\ idx' = [idx EXCEPT ![j] = 0]
  /\ pc' = [pc EXCEPT ![j] = "reg"]
  /\ log' = [log EXCEPT ![j] = <<CallEntry("isRegisteredUser", 0)>>]
  /\ resp' = [resp EXCEPT ![j] = AckResponse(nums)]
  /\ UNCHANGED <<sentCount, skippedCount, failedCount, files>>

\* the handler, from its first line to its response
Handle(j, r) ==
  IF ChecksReady /\ ~info
    THEN Reject(j, "WhatsApp not ready. Please scan QR.")
  ELSE IF RequestNumbers(r) = <<>>
    THEN Reject(j, "No valid numbers found.")
  ELSE IF Blank(Compose(r.message)) /\ ~r.media.present
    THEN Reject(j, "Message or media is required.")
  ELSE Accept(j, r, RequestNumbers(r))

Send(j) ==
  /\ st[j] = "pending"
  /\ Handle(j, rin[j])
  /\ UNCHANGED <<variant, info, pure>>
  /\ UNCHANGED clientVars

----------------------------------------------------------------------------
(* The delivery loop: index.js 120-180, 335-388, 506-547 *)

Total(j) == Len(numbers[j])
Number(j) == numbers[j][idx[j] + 1]

Bump(counter, j) == [counter EXCEPT ![j] = counter[j] + 1]

\* LoopNext that tries a failed recipient again instead of moving on
LoopNextRetriesFailed(j, lg) ==
  LET failedNow == /\ Len(lg) >= 2
                   /\ lg[Len(lg) - 1].op = "emit"
                   /\ lg[Len(lg) - 1].kind = "failed"
      ni == IF failedNow THEN idx[j] ELSE idx[j] + 1
  IN /\ idx' = [idx EXCEPT ![j] = ni]
     /\ IF ni < Total(j)
          THEN /\ log' = [log EXCEPT ![j] = lg \o <<CallEntry("isRegisteredUser", ni)>>]
               /\ pc' = [pc EXCEPT ![j] = "reg"]
               /\ st' = st
          ELSE /\ log' = [log EXCEPT ![j] =
                            lg \o <<SummaryEntry(sentCount'[j], skippedCount'[j], failedCount'[j])>>]
               /\ pc' = [pc EXCEPT ![j] = "done"]
               /\ st' = [st EXCEPT ![j] = "done"]

\* i++, the loop test, and the code up to the next await (or the summary)
LoopNext(j, lg) ==
  /\ idx' = [idx EXCEPT ![j] = idx[j] + 1]
  /\ IF idx[j] + 1 < Total(j)
       THEN /\ log' = [log EXCEPT ![j] = lg \o <<CallEntry("isRegisteredUser", idx[j] + 1)>>]
            /\ pc' = [pc EXCEPT ![j] = "reg"]
            /\ st' = st
       ELSE /\ log' = [log EXCEPT ![j] =
                         lg \o <<SummaryEntry(sentCount'[j], skippedCount'[j], failedCount'[j])>>]
            /\ pc' = [pc EXCEPT ![j] = "done"]
            /\ st' = [st EXCEPT ![j] = "done"]

\* what follows the try/catch of an iteration that ended in `continue`
AfterContinue(j, lg) == LoopNext(j, lg)

\* Skip without its `continue`: the iteration goes on to sendMessage
SkipFallsThrough(j, kind, lg) ==
  /\ skippedCount' = Bump(skippedCount, j)
  /\ UNCHANGED <<sentCount, failedCount, idx, st>>
  /\ log' = [log EXCEPT ![j] =
               lg \o <<SkipEntry(kind, idx[j], Number(j)), CallEntry("send", idx[j])>>]
  /\ pc' = [pc EXCEPT ![j] = "send"]

\* skippedCount++; io.emit(...); continue
Skip(j, kind, lg) ==
  /\ skippedCount' = Bump(skippedCount, j)
  /\ UNCHANGED <<sentCount, failedCount>>
  /\ AfterContinue(j, Append(lg, SkipEntry(kind, idx[j], Number(j))))

\* await delay(msgDelay) is reached: after the try block or the catch block
ToDelay(j, lg) ==
  /\ log' = [log EXCEPT ![j] = lg]
  /\ pc' = [pc EXCEPT ![j] = "delay"]
  /\ UNCHANGED <<idx, st>>

\* Catch that emits the failure without counting it
CatchForgetsCount(j, lg) ==
  /\ UNCHANGED <<sentCount, skippedCount, failedCount>>
  /\ ToDelay(j, Append(lg, OutcomeEntry("failed", idx[j], Total(j), Number(j))))

\* Catch that lets the error leave the loop: the job stops where it failed
CatchAbortsJob(j, lg) ==
  /\ failedCount' = Bump(failedCount, j)
  /\ UNCHANGED <<sentCount, skippedCount, idx, st>>
  /\ log' = [log EXCEPT ![j] = Append(lg, OutcomeEntry("failed", idx[j], Total(j), Number(j)))]
  /\ pc' = [pc EXCEPT ![j] = "aborted"]

\* catch (err) { failedCount++; io.emit(... Failed ...) }
Catch(j, lg) ==
  /\ failedCount' = Bump(failedCount, j)
  /\ UNCHANGED <<sentCount, skippedCount>>
  /\ ToDelay(j, Append(lg, OutcomeEntry("failed", idx[j], Total(j), Number(j))))

\* sentCount++; io.emit(... Sent ...)
Sent(j, lg) ==
  /\ sentCount' = Bump(sentCount, j)
  /\ UNCHANGED <<skippedCount, failedCount>>
  /\ ToDelay(j, Append(lg, OutcomeEntry("sent", idx[j], Total(j), Number(j))))

\* a call is issued and the loop suspends on it
Await(j, op, lg) ==
  /\ log' = [log EXCEPT ![j] = Append(lg, CallEntry(op, idx[j]))]
  /\ pc' = [pc EXCEPT ![j] = op]
  /\ UNCHANGED <<idx, st, sentCount, skippedCount, failedCount>>

JobFrame ==
  /\ UNCHANGED <<variant, info, pure, rin, resp, numbers, mediaFile, msgDelay>>
  /\ UNCHANGED clientVars

\* await client.isRegisteredUser(chatId) resolves
RegResolve(j, isRegistered) ==
  /\ st[j] = "running" /\ pc[j] = "reg"
  /\ LET lg == Append(log[j], CallEntry(IF isRegistered THEN "registered" ELSE "unregistered",
                                         idx[j]))
     IN IF ~isRegistered THEN Skip(j, "not on WhatsApp", lg)
        ELSE IF ~mediaFile[j].present THEN Await(j, "send", lg)
        ELSE IF ChecksMedia /\ InvalidType(mediaFile[j]) THEN Skip(j, "invalid file type", lg)
        ELSE IF ChecksMedia /\ Oversized(mediaFile[j]) THEN Skip(j, "file >16MB", lg)
        ELSE IF UsesScratchFile THEN Await(j, "mv", lg)
        ELSE Await(j, "send", lg)
  /\ UNCHANGED files
  /\ JobFrame

\* await client.isRegisteredUser(chatId) rejects
RegReject(j) ==
  /\ st[j] = "running" /\ pc[j] = "reg"
  /\ Catch(j, Append(log[j], CallEntry("isRegisteredUserRejected", idx[j])))
  /\ UNCHANGED files
  /\ JobFrame

\* mediaFile.mv(uploadPath): the file is written; the promise resolves later
MvWrite(j) ==
  /\ st[j] = "running" /\ pc[j] = "mv"
  /\ files' = files \cup {mediaFile[j].name}
  /\ pc' = [pc EXCEPT ![j] = "mvdone"]
  /\ UNCHANGED <<idx, st, sentCount, skippedCount, failedCount, log>>
  /\ JobFrame

\* await mediaFile.mv(uploadPath) rejects
MvReject(j) ==
  /\ st[j] = "running" /\ pc[j] = "mv"
  /\ Catch(j, Append(log[j], CallEntry("mvRejected", idx[j])))
  /\ UNCHANGED files
  /\ JobFrame

\* the loop resumes after mv: fs.readFileSync, new MessageMedia, sendMessage
MvResume(j) ==
  /\ st[j] = "running" /\ pc[j] = "mvdone"
  /\ IF mediaFile[j].name \in files
       THEN Await(j, "send", Append(log[j], CallEntry("read", idx[j])))
       ELSE Catch(j, Append(log[j], CallEntry("readThrew", idx[j])))
  /\ UNCHANGED files
  /\ JobFrame

\* await client.sendMessage(...) resolves; with a scratch file, fs.unlinkSync
SendResolve(j) ==
  /\ st[j] = "running" /\ pc[j] = "send"
  /\ LET lg == Append(log[j], CallEntry("sendResolved", idx[j]))
     IN IF mediaFile[j].present /\ UsesScratchFile
          THEN IF mediaFile[j].name \in files
                 THEN /\ files' = files \ {mediaFile[j].name}
                      /\ Sent(j, Append(lg, CallEntry("unlink", idx[j])))
                 ELSE /\ files' = files
                      /\ Catch(j, Append(lg, CallEntry("unlinkThrew", idx[j])))
          ELSE /\ files' = files
               /\ Sent(j, lg)
  /\ JobFrame

\* await client.sendMessage(...) rejects
SendReject(j) ==
  /\ st[j] = "running" /\ pc[j] = "send"
  /\ Catch(j, Append(log[j], CallEntry("sendRejected", idx[j])))
  /\ UNCHANGED files
  /\ JobFrame

\* await delay(msgDelay): the timer fires
DelayFire(j) ==
  /\ st[j] = "running" /\ pc[j] = "delay"
  /\ UNCHANGED <<sentCount, skippedCount, failedCount>>
  /\ LoopNext(j, Append(log[j], DelayEntry(idx[j], msgDelay[j])))
  /\ UNCHANGED files
  /\ JobFrame

----------------------------------------------------------------------------

Next ==
  \/ ClientReady
  \/ \E j \in JobIds, r \in Requests : Arrive(j, r)
  \/ \E j \in JobIds : Send(j)
  \/ \E j \in JobIds, isRegistered \in BOOLEAN : RegResolve(j, isRegistered)
  \/ \E j \in JobIds : RegReject(j)
  \/ \E j \in JobIds : MvWrite(j)
  \/ \E j \in JobIds : MvReject(j)
  \/ \E j \in JobIds : MvResume(j)
  \/ \E j \in JobIds : SendResolve(j)
  \/ \E j \in JobIds : SendReject(j)
  \/ \E j \in JobIds : DelayFire(j)

Spec == Init /\ [][Next]_vars

----------------------------------------------------------------------------
(* The normalizer on its own: a raw list is drawn, lines 91-96 are applied *)

LeadDigits == {"9", "1"}
NationalTail == <<"2", "3", "4", "5", "6", "7", "8", "0">>
NationalNumbers == { <<a, b>> \o NationalTail : a \in LeadDigits, b \in LeadDigits }

\* the written forms of national number n that a user types
BareForm(n) == n
CodeForm(n) == HomeCode \o n
PlusForm(n) == <<"+">> \o HomeCode \o n
TrunkForm(n) == <<"0">> \o n
DashForm(n) == SubSeq(n, 1, 5) \o <<"-">> \o SubSeq(n, 6, 10)
CutForm(n) == SubSeq(n, 1, 9)

RawEntries ==
  UNION { {BareForm(n), CodeForm(n), PlusForm(n), TrunkForm(n), DashForm(n), CutForm(n)} :
          n \in NationalNumbers }
  \cup { Short, <<"a", "b", "c">> }

RawLists == UNION { [1..n -> RawEntries] : n \in 0..MaxList }

InitNorm ==
  /\ variant \in {1, 2, 3}
  /\ info = FALSE
  /\ InitJobs
  /\ pure \in [kind : {"norm"}, in : RawLists, out : {<<>>}, done : {FALSE},
               again : {<<>>}, redone : {FALSE}]
  /\ Startup(NoBlob)

Normalize ==
  /\ pure.kind = "norm" /\ ~pure.done
  /\ pure' = [pure EXCEPT !.out = NormalizeNumbers(pure.in), !.done = TRUE]
  /\ UNCHANGED <<variant, info>>
  /\ UNCHANGED clientVars
  /\ UNCHANGED jobVars

\* the normalized list is submitted again: lines 91-96 applied to their output
Renormalize ==
  /\ pure.kind = "norm" /\ pure.done /\ ~pure.redone
  /\ pure' = [pure EXCEPT !.again = NormalizeNumbers(pure.out), !.redone = TRUE]
  /\ UNCHANGED <<variant, info>>
  /\ UNCHANGED clientVars
  /\ UNCHANGED jobVars

NextNorm == Normalize \/ Renormalize

SpecNorm == InitNorm /\ [][NextNorm]_vars

----------------------------------------------------------------------------
(* The pacing delay on its own: a delay field is drawn, line 115 is applied *)

DelayChars == {"0", "1", "5", "9", "-", "+", " ", "a"}
DelayFields == UNION { [1..n -> DelayChars] : n \in 0..MaxDelayLen }

InitDelay ==
  /\ variant \in {1, 2, 3}
  /\ info = FALSE
  /\ InitJobs
  /\ pure \in [kind : {"delay"}, in : DelayFields, out : {0}, done : {FALSE}]
  /\ Startup(NoBlob)

ComputeDelay ==
  /\ pure.kind = "delay" /\ ~pure.done
  /\ pure' = [pure EXCEPT !.out = MsgDelay(pure.in), !.done = TRUE]
  /\ UNCHANGED <<variant, info>>
  /\ UNCHANGED clientVars
  /\ UNCHANGED jobVars

NextDelay == ComputeDelay

SpecDelay == InitDelay /\ [][NextDelay]_vars

----------------------------------------------------------------------------
(* The client's lifecycle: index.js 29-59, 226-287, 429-453.  The events   *)
(* come from the library; the handlers are the program's.  Versions 1 and  *)
(* 3 register no "authenticated" or "auth_failure" handler and build the   *)
(* client without a session.                                               *)

Blobs == {"b1", "b2"}

PersistsSession == variant = 2
BacksOff == variant \in {1, 2}

Last(s) == s[Len(s)]

RunningJobs == { j \in JobIds : st[j] = "running" }

\* the library re-reads options.session, which the program never reassigns
Initialize(by) ==
  /\ inits' = Append(inits, InitializeCall(sessionData, by))
  /\ auth' = "pending"

\* client.on("disconnected"): setTimeout(() => client.initialize(), 5000) in
\* versions 1 and 2, client.initialize() at once in version 3
Disconnected ==
  /\ Len(disconnects) < MaxDisconnects
  /\ disconnects' = Append(disconnects, [running |-> RunningJobs])
  /\ \E i \in {info, FALSE} : info' = i
  /\ IF BacksOff
       THEN /\ timers' = timers + 1
            /\ UNCHANGED <<inits, auth>>
       ELSE /\ Initialize("handler")
            /\ timers' = timers
  /\ UNCHANGED <<sessionFile, sessionData, rejected>>
  /\ UNCHANGED <<variant, pure>>
  /\ UNCHANGED jobVars

\* the 5000 ms timer of a disconnect fires
ReconnectTimer ==
  /\ timers > 0
  /\ timers' = timers - 1
  /\ Initialize("timer")
  /\ UNCHANGED <<disconnects, sessionFile, sessionData, rejected>>
  /\ UNCHANGED <<variant, info, pure>>
  /\ UNCHANGED jobVars

\* client.on("authenticated"): fs.writeFileSync(SESSION_FILE_PATH, JSON.stringify(session))
Authenticated(session) ==
  /\ PersistsSession
  /\ auth = "pending"
  /\ session \notin { r.blob : r \in rejected }
  /\ sessionFile' = session
  /\ auth' = "ok"
  /\ UNCHANGED <<disconnects, timers, inits, sessionData, rejected>>
  /\ UNCHANGED <<variant, info, pure>>
  /\ UNCHANGED jobVars

\* client.on("auth_failure"): if (fs.existsSync(...)) fs.unlinkSync(SESSION_FILE_PATH)
AuthFailure ==
  /\ PersistsSession
  /\ auth = "pending"
  /\ Last(inits).blob # NoBlob
  /\ sessionFile' = NoBlob
  /\ auth' = "failed"
  /\ rejected' = rejected \cup {[blob |-> Last(inits).blob, at |-> Len(inits)]}
  /\ UNCHANGED <<disconnects, timers, inits, sessionData>>
  /\ UNCHANGED <<variant, info, pure>>
  /\ UNCHANGED jobVars

\* one server, one /send request, and the client's lifecycle around it
ClientJob == CHOOSE j \in JobIds : \A k \in JobIds : j <= k

ClientRequests == { r \in Requests : r.message = <<"h", "i">> }

InitClient ==
  /\ variant \in {1, 2, 3}
  /\ info = FALSE
  /\ InitJobs
  /\ pure = NoPure
  /\ \E file \in {NoBlob} \cup Blobs :
       /\ file # NoBlob => PersistsSession
       /\ Startup(file)

\* the steps of job j's delivery loop: a collaborator call, a file move or a
\* timer returns or throws
LoopStep(j) ==
  \/ \E isRegistered \in BOOLEAN : RegResolve(j, isRegistered)
  \/ RegReject(j)
  \/ MvWrite(j)
  \/ MvReject(j)
  \/ MvResume(j)
  \/ SendResolve(j)
  \/ SendReject(j)
  \/ DelayFire(j)

NextClient ==
  \/ ClientReady
  \/ \E r \in ClientRequests : Arrive(ClientJob, r)
  \/ Send(ClientJob)
  \/ LoopStep(ClientJob)
  \/ Disconnected
  \/ ReconnectTimer
  \/ \E session \in Blobs : Authenticated(session)
  \/ AuthFailure

SpecClient == InitClient /\ [][NextClient]_vars

\* every pending call, file move and timer eventually returns or throws
SpecClientLive ==
  SpecClient /\ WF_vars(LoopStep(ClientJob)) /\ WF_vars(ReconnectTimer)

----------------------------------------------------------------------------
(* Reading a job's log *)

Positions(j) == DOMAIN log[j]
IsEmit(e) == e.op = "emit"
IsOutcome(e) == e.op = "emit" /\ e.kind \in {"sent", "failed"}
ThrowOps == {"isRegisteredUserRejected", "mvRejected", "readThrew", "sendRejected", "unlinkThrew"}

\* the recipients (loop indexes) of job j that have a log entry with an op in ops
RecipientsWith(j, ops) == { log[j][k].i : k \in { p \in Positions(j) : log[j][p].op \in ops } }

Started(j) == st[j] \in {"running", "done"}

----------------------------------------------------------------------------
(* C1: in the delivery loop the pacing delay is awaited after every        *)
(* iteration, whatever its outcome: each isRegisteredUser call after the   *)
(* first, and the summary, directly follows a full pacing delay.           *)

C1_PacingAfterEveryIteration ==
  \A j \in JobIds : \A k \in Positions(j) :
    (k > 1 /\ log[j][k].op \in {"isRegisteredUser", "summary"})
      => (log[j][k - 1].op = "delay" /\ log[j][k - 1].ms = msgDelay[j])

(* C2: failure isolation: when a job completes, an iteration has run for   *)
(* every recipient, failed is the number of recipients whose attempt       *)
(* threw, and sent is the number of recipients whose sendMessage call      *)
(* completed without error.                                                *)

C2_FailureIsolation ==
  \A j \in JobIds :
    st[j] = "done" =>
      /\ RecipientsWith(j, {"isRegisteredUser"}) = 0..(Total(j) - 1)
      /\ failedCount[j] = Cardinality(RecipientsWith(j, ThrowOps))
      /\ sentCount[j] = Cardinality(RecipientsWith(j, {"sendResolved"}))

(* C3: within a job the per-recipient events are emitted in processing     *)
(* order, the i+1/total index of sent/failed events is the position of the *)
(* recipient, a success event follows the resolution of that recipient's   *)
(* sendMessage, and the summary is emitted once, as the last event.        *)

C3_EventOrder ==
  \A j \in JobIds :
    /\ \A a, b \in Positions(j) :
         (a < b /\ IsEmit(log[j][a]) /\ IsEmit(log[j][b])) => log[j][a].i < log[j][b].i
    /\ \A k \in Positions(j) :
         IsOutcome(log[j][k]) =>
           (log[j][k].index = log[j][k].i + 1 /\ log[j][k].total = Total(j))
    /\ \A k \in Positions(j) :
         (IsEmit(log[j][k]) /\ log[j][k].kind = "sent") =>
           \E a \in 1..(k - 1) : log[j][a].op = "sendResolved" /\ log[j][a].i = log[j][k].i
    /\ \A k \in Positions(j) : log[j][k].op = "summary" => k = Len(log[j])
    /\ st[j] = "done" <=> (log[j] # <<>> /\ log[j][Len(log[j])].op = "summary")

C3_Witness ==
  \E j \in JobIds :
    /\ st[j] = "done" /\ Total(j) = 2
    /\ \E a, b \in Positions(j) :
         /\ a < b
         /\ IsEmit(log[j][a]) /\ log[j][a].i = 0
         /\ IsEmit(log[j][b]) /\ log[j][b].kind = "sent" /\ log[j][b].index = 2

(* C4: readiness gate: a /send request handled while the client is not     *)
(* ready is answered with an error and its job never starts.               *)

C4_ReadinessGate ==
  [][\A j \in JobIds :
       (st[j] = "pending" /\ st'[j] # "pending" /\ ~info)
         => (st'[j] = "rejected" /\ resp'[j].code >= 400 /\ log'[j] = <<>>)]_vars

(* C5: validation gate: with the client ready, a /send request is rejected *)
(* with 400 and its job never starts if and only if the normalized         *)
(* recipient set is empty or (the message is blank and no media attached). *)

C5_ValidationGate ==
  [][\A j \in JobIds :
       (st[j] = "pending" /\ st'[j] # "pending" /\ info)
         => ((st'[j] = "rejected" /\ resp'[j].code = 400 /\ log'[j] = <<>>)
              <=> (RequestNumbers(rin[j]) = <<>>
                    \/ (Blank(rin[j].message) /\ ~rin[j].media.present)))]_vars

(* C6: every accepted request has been answered {status: "sending", total} *)
(* as soon as its job exists, hence before any status event of the job;    *)
(* total is the number of recipients the loop iterates over, and the       *)
(* response carries nothing else.                                          *)

C6_AckBeforeEvents ==
  \A j \in JobIds :
    /\ Started(j) => resp[j] = [code |-> 200, status |-> "sending", total |-> Total(j)]
    /\ (\E k \in Positions(j) : log[j][k].op \in {"emit", "summary"}) => resp[j].code = 200
    /\ st[j] = "done" =>
         Cardinality(RecipientsWith(j, {"isRegisteredUser"})) = resp[j].total

C6_Witness ==
  \E j \in JobIds :
    /\ st[j] = "running" /\ resp[j].code = 200 /\ resp[j].total = 2
    /\ \A k \in Positions(j) : log[j][k].op \notin {"emit", "summary"}

(* C7: the media scratch file is deleted before the iteration that wrote   *)
(* it ends, on every path: when no job is between its mv and the end of    *)
(* its sendMessage, the uploads directory holds no scratch file.           *)

C7_ScratchFileReleased ==
  (\A j \in JobIds : pc[j] \notin {"mvdone", "send"}) => files = {}

(* C8: pacing floor: for every delay field the effective delay is at least *)
(* 1500 ms, and a field that is an integer d gives exactly max(d, 1500).   *)

IsIntegerField(d) ==
  /\ d # <<>>
  /\ LET ds == IF Head(d) = "-" THEN Tail(d) ELSE d
     IN ds # <<>> /\ \A k \in 1..Len(ds) : IsDigit(ds[k])

RequestedValue(d) ==
  IF Head(d) = "-" THEN 0 - DecimalValue(Tail(d), 0) ELSE DecimalValue(d, 0)

C8_PacingFloor ==
  (pure.kind = "delay" /\ pure.done) =>
    /\ pure.out >= 1500
    /\ IsIntegerField(pure.in) => pure.out = Max(RequestedValue(pure.in), 1500)

(* C9: dedup across written forms: a batch made only of the forms N, 91N   *)
(* and +91N of one 10-digit national number N yields exactly one           *)
(* recipient.                                                              *)

WrittenForms(n) == {BareForm(n), CodeForm(n), PlusForm(n)}

C9_DedupAcrossForms ==
  (pure.kind = "norm" /\ pure.done) =>
    \A n \in NationalNumbers :
      (pure.in # <<>> /\ \A k \in DOMAIN pure.in : pure.in[k] \in WrittenForms(n))
        => Len(pure.out) = 1

(* C10: RecipientId invariant: every normalized element is "+" followed by *)
(* at least 10 digits that begin with 91; it comes from an input with at   *)
(* least 10 digits (shorter inputs contribute nothing); and an input whose *)
(* digits do not start with 91 yields "+91" and its last 10 digits.        *)

Range(f) == { f[k] : k \in DOMAIN f }

WellFormedId(e) ==
  /\ Len(e) >= 11
  /\ e[1] = "+"
  /\ \A m \in 2..Len(e) : IsDigit(e[m])
  /\ e[2] = "9" /\ e[3] = "1"

C10_RecipientIdInvariant ==
  (pure.kind = "norm" /\ pure.done) =>
    /\ \A e \in Range(pure.out) : WellFormedId(e)
    /\ \A e \in Range(pure.out) :
         \E m \in DOMAIN pure.in :
           LET d == StripNonDigits(pure.in[m])
           IN /\ Len(d) >= 10
              /\ e \in { <<"+">> \o d, <<"+", "9", "1">> \o SliceLast(d, 10) }
    /\ \A m \in DOMAIN pure.in :
         LET d == StripNonDigits(pure.in[m])
         IN (Len(d) >= 10 /\ ~(d[1] = "9" /\ d[2] = "1"))
              => (<<"+", "9", "1">> \o SliceLast(d, 10)) \in Range(pure.out)

C10_Witness ==
  /\ pure.kind = "norm" /\ pure.done
  /\ Len(pure.in) = 2
  /\ Len(StripNonDigits(pure.in[1])) = 9
  /\ Len(StripNonDigits(pure.in[2])) = 11
  /\ pure.in[2][1] = "0"
  /\ Len(pure.out) = 1

(* C11: normalizer idempotence: normalizing an already normalized list     *)
(* yields exactly the same list.                                           *)

C11_NormalizerIdempotent ==
  (pure.kind = "norm" /\ pure.redone) => pure.again = pure.out

C11_Witness ==
  /\ pure.kind = "norm" /\ pure.redone
  /\ Len(pure.in) = 2 /\ Len(pure.out) = 2
  /\ Len(StripNonDigits(pure.in[1])) = 11 /\ pure.in[1][1] = "0"
  /\ StartsWithHome(pure.in[2])

(* C12: an unregistered recipient is skipped, not sent: when               *)
(* isRegisteredUser returns false, skipped grows by one and sent and       *)
(* failed stay, one skip event is emitted, no file is written and          *)
(* sendMessage is never called for that recipient, and the job goes on to  *)
(* the next recipient (or its summary).                                    *)

NewEntries(j) == SubSeq(log'[j], Len(log[j]) + 1, Len(log'[j]))

C12_UnregisteredSkipped ==
  /\ [](\A j \in JobIds : \A k \in Positions(j) :
          log[j][k].op = "unregistered" =>
            /\ k + 2 <= Len(log[j])
            /\ log[j][k + 1] = SkipEntry("not on WhatsApp", log[j][k].i, numbers[j][log[j][k].i + 1])
            /\ \/ log[j][k + 2] = CallEntry("isRegisteredUser", log[j][k].i + 1)
               \/ log[j][k + 2].op = "summary"
            /\ log[j][k].i \notin RecipientsWith(j, {"mv", "send"}))
  /\ [][\A j \in JobIds :
          (NewEntries(j) # <<>> /\ NewEntries(j)[1].op = "unregistered")
            => /\ skippedCount'[j] = skippedCount[j] + 1
               /\ sentCount'[j] = sentCount[j]
               /\ failedCount'[j] = failedCount[j]
               /\ Len(SelectSeq(NewEntries(j), IsEmit)) = 1]_vars

C12_Witness ==
  \E j \in JobIds :
    /\ Total(j) = 2 /\ st[j] = "done"
    /\ \E k \in Positions(j) : log[j][k].op = "unregistered" /\ log[j][k].i = 0
    /\ skippedCount[j] = 1 /\ sentCount[j] = 1

(* C13: send-time media validation: when the attached media is neither     *)
(* image/ nor video/, or is larger than 16 MiB, no registered recipient    *)
(* gets a sendMessage call or a scratch file; each is skipped with an      *)
(* event naming the violation (invalid type before oversize), and the job  *)
(* ends with sent = 0.                                                     *)

BadMedia(m) == m.present /\ (m.type \notin {"image", "video"} \/ m.size > 16 * 1024 * 1024)

ViolationOf(m) == IF m.type \notin {"image", "video"} THEN "invalid file type" ELSE "file >16MB"

C13_MediaValidatedAtSend ==
  \A j \in JobIds :
    (Started(j) /\ BadMedia(mediaFile[j])) =>
      /\ RecipientsWith(j, {"mv", "send"}) = {}
      /\ \A k \in Positions(j) :
           log[j][k].op = "registered" =>
             /\ k + 1 <= Len(log[j])
             /\ log[j][k + 1] =
                  SkipEntry(ViolationOf(mediaFile[j]), log[j][k].i, numbers[j][log[j][k].i + 1])
      /\ st[j] = "done" => sentCount[j] = 0

\* the claim as the first two versions of the server keep it
C13_CheckedVersions == variant \in {1, 2} => C13_MediaValidatedAtSend

(* C14: a send that completes is counted as sent: every recipient whose    *)
(* sendMessage call resolved has a success event, no failure event, and is *)
(* counted in sent; also when two jobs with media of the same name         *)
(* interleave.                                                             *)

EmittedFor(j, kind) ==
  { log[j][k].i : k \in { p \in Positions(j) : IsEmit(log[j][p]) /\ log[j][p].kind = kind } }

C14_CompletedSendCounted ==
  \A j \in JobIds :
    /\ RecipientsWith(j, {"sendResolved"}) \subseteq EmittedFor(j, "sent")
    /\ RecipientsWith(j, {"sendResolved"}) \cap EmittedFor(j, "failed") = {}
    /\ sentCount[j] = Cardinality(RecipientsWith(j, {"sendResolved"}))

\* the claim while at most one job has been accepted
C14_SingleJob ==
  Cardinality({ j \in JobIds : Started(j) }) <= 1 => C14_CompletedSendCounted

(* C15: outcome accounting: every iteration increments exactly one of      *)
(* sent/skipped/failed and emits exactly one per-recipient event, so       *)
(* sent + skipped + failed = decided iterations = per-recipient events;    *)
(* at the summary the sum is total, the summary carries the counters, and  *)
(* the job has emitted total + 1 events.                                   *)

Emits(j) == SelectSeq(log[j], IsEmit)
IsSkip(e) == e.op = "emit" /\ e.kind \notin {"sent", "failed"}

\* iterations of job j whose try/catch has ended
Decided(j) == IF pc[j] = "delay" THEN idx[j] + 1 ELSE idx[j]

C15_OutcomeAccounting ==
  \A j \in JobIds :
    /\ sentCount[j] = Cardinality(EmittedFor(j, "sent"))
    /\ failedCount[j] = Cardinality(EmittedFor(j, "failed"))
    /\ skippedCount[j] = Len(SelectSeq(log[j], IsSkip))
    /\ sentCount[j] + skippedCount[j] + failedCount[j] = Len(Emits(j))
    /\ Len(Emits(j)) = Decided(j)
    /\ \A a, b \in 1..Len(Emits(j)) : a # b => Emits(j)[a].i # Emits(j)[b].i
    /\ st[j] = "done" =>
         /\ sentCount[j] + skippedCount[j] + failedCount[j] = Total(j)
         /\ log[j][Len(log[j])] = SummaryEntry(sentCount[j], skippedCount[j], failedCount[j])
         /\ Len(Emits(j)) + 1 = Total(j) + 1
         /\ Cardinality({ k \in Positions(j) : log[j][k].op = "summary" }) = 1

C15_Witness ==
  \E j \in JobIds :
    /\ st[j] = "done" /\ Total(j) = 2
    /\ failedCount[j] = 1 /\ skippedCount[j] = 1

(* C16: no retry, no going back: a job moves only NotStarted -> Running -> *)
(* Completed; within a job each recipient gets at most one                 *)
(* isRegisteredUser call and at most one sendMessage call, and nothing is  *)
(* attempted for a recipient after its failure event.                      *)

JobMoves ==
  { <<"none", "pending">>, <<"pending", "rejected">>, <<"pending", "running">>,
    <<"running", "done">> }

CallsFor(j, op, i) == { k \in Positions(j) : log[j][k].op = op /\ log[j][k].i = i }

C16_NoRetry ==
  /\ [](\A j \in JobIds :
          /\ \A i \in 0..(Total(j) - 1) :
               /\ Cardinality(CallsFor(j, "isRegisteredUser", i)) <= 1
               /\ Cardinality(CallsFor(j, "send", i)) <= 1
          /\ \A k \in Positions(j) :
               (IsEmit(log[j][k]) /\ log[j][k].kind = "failed") =>
                 \A m \in Positions(j) :
                   (m > k /\ log[j][m].op \in {"isRegisteredUser", "mv", "read", "send"})
                     => log[j][m].i > log[j][k].i)
  /\ [][\A j \in JobIds : st'[j] = st[j] \/ <<st[j], st'[j]>> \in JobMoves]_vars

C16_Witness ==
  \E j \in JobIds :
    /\ st[j] = "done" /\ Total(j) = 2
    /\ 0 \in EmittedFor(j, "failed")
    /\ CallsFor(j, "send", 1) # {}

(* C18: single active job on the shared session: at most one job is        *)
(* Running at a time, so two collaborator calls are never outstanding at   *)
(* once on the shared client.                                              *)

C18_SingleActiveJob ==
  /\ Cardinality({ j \in JobIds : st[j] = "running" }) <= 1
  /\ Cardinality({ j \in JobIds : pc[j] \in {"reg", "send"} }) <= 1

(* C17: job completion: when every collaborator call, file move and timer  *)
(* eventually returns or throws, every accepted job eventually reaches     *)
(* Completed with its summary emitted, also when the client disconnects or *)
(* every send fails while it runs; no step takes a running job anywhere    *)
(* but to Completed.                                                       *)

SummaryEmitted(j) == log[j] # <<>> /\ Last(log[j]).op = "summary"

C17_JobCompletes ==
  /\ \A j \in JobIds : (st[j] = "running") ~> (st[j] = "done" /\ SummaryEmitted(j))
  /\ [][\A j \in JobIds : st[j] = "running" => st'[j] \in {"running", "done"}]_vars

C17_Witness ==
  /\ st[ClientJob] = "done" /\ SummaryEmitted(ClientJob)
  /\ Total(ClientJob) = 2
  /\ failedCount[ClientJob] = 2
  /\ \E k \in 1..Len(disconnects) : ClientJob \in disconnects[k].running

(* C19: reconnect after backoff: every "disconnected" event gets exactly   *)
(* one client.initialize() call, made or still pending on its timer, and   *)
(* every initialize after startup is called from the fired 5 s timer,      *)
(* never from inside the disconnected handler.                             *)

C19_ReconnectAfterBackoff ==
  /\ Len(inits) - 1 + timers = Len(disconnects)
  /\ \A k \in 2..Len(inits) : inits[k].by = "timer"

\* the versions that arm the timer (index.js 53-59, 284-287) do as C19 says
C19_WithBackoff == BacksOff => C19_ReconnectAfterBackoff

(* C20: rejected session blob: after an "auth_failure" the session file no *)
(* longer exists, and no later client.initialize() presents the blob that  *)
(* was turned down.                                                        *)

C20_RejectedBlobDropped ==
  /\ auth = "failed" => sessionFile = NoBlob
  /\ \A r \in rejected : \A k \in 1..Len(inits) : k > r.at => inits[k].blob # r.blob

\* the file part alone: the handler leaves no session file behind
C20_FileDeleted == auth = "failed" => sessionFile = NoBlob

====
